---------------------------- MODULE Spec2Model ----------------------------
(***************************************************************************)
(* Model of chantools' genimportscript command                             *)
(* (cmd/chantools/genimportscript.go): genImportScriptCommand.Execute, the *)
(* three print functions and seedBirthdayToBlock.                          *)
(*                                                                         *)
(* Representation.  A uint32 is the record [hi, lo] of its two 16-bit      *)
(* halves, so that values of 2^31 and above (hardened child numbers,       *)
(* wrapped block heights) keep their width.  Text is a sequence of tokens: *)
(* the empty sequence is the empty string.  A line of standard output is a *)
(* record of what was formatted into it.                                   *)
(***************************************************************************)
EXTENDS Integers, Sequences, FiniteSets, TLC

VARIABLES
    args,            \* the flags the command was started with
    chainParams,     \* chainParams.Name, set by setupChainParams
    console,         \* what rootKeyFromConsole answers in this environment
    build,           \* how this build converts an out-of-range float to uint32
    invalidChildren, \* the key paths at which derivation hits an invalid key
    c,               \* the genImportScriptCommand struct (Execute writes to it)
    extendedKey,     \* Execute's local extendedKey
    derivationPath,  \* Execute's local derivationPath
    printFn,         \* Execute's local printFn
    branch,          \* which of the two loops is running
    i,               \* the loop counter
    path,            \* the path last passed to lnd.DeriveChildren
    now,             \* the last reading of the wall clock
    out,             \* the lines written to standard output by this run
    pc,              \* where Execute is
    runs,            \* how many times the command has been started
    prev,            \* the previous run: its flags, output and how it ended
    iter,            \* one application of the loop body (SpecLoop)
    est              \* two applications of seedBirthdayToBlock (SpecEstimate)

vars == <<args, chainParams, console, build, invalidChildren, c, extendedKey,
          derivationPath, printFn, branch, i, path, now, out, pc, runs, prev,
          iter, est>>

runVars == <<args, chainParams, console, build, invalidChildren, c,
             extendedKey, derivationPath, printFn, branch, i, path, now, out,
             pc, runs, prev>>

-----------------------------------------------------------------------------
(* Bounds of the model.                                                    *)

\* The largest recovery window given on the command line in Spec.
MaxWindow == 2

\* The wall clock reads 0..MaxClock.
MaxClock == 1

\* The command is started at most MaxRuns times in SpecRerun.
MaxRuns == 2

-----------------------------------------------------------------------------
(* uint32                                                                  *)

Half == 2^16

U32(n) == [hi |-> n \div Half, lo |-> n % Half]

Zero32 == U32(0)

Less(a, b) == a.hi < b.hi \/ (a.hi = b.hi /\ a.lo < b.lo)

Leq(a, b) == a = b \/ Less(a, b)

\* Mutant of Inc: the counter advances by two.
IncByTwo(a) == [hi |-> a.hi, lo |-> a.lo + 2]

\* i++ on a uint32
Inc(a) ==
    IF a.lo < Half - 1 THEN [hi |-> a.hi, lo |-> a.lo + 1]
    ELSE IF a.hi < Half - 1 THEN [hi |-> a.hi + 1, lo |-> 0]
    ELSE Zero32

\* n >= 1 as the uint32 2^32 - n (the low 32 bits of the integer -n)
Neg32(n) ==
    [hi |-> (Half - 1) - ((n - 1) \div Half),
     lo |-> (Half - 1) - ((n - 1) % Half)]

\* hdkeychain.HardenedKeyStart = 0x80000000
HardenedKeyStart == [hi |-> 2^15, lo |-> 0]

IsHardened(n) == ~Less(n, HardenedKeyStart)

\* what lnd.ParsePath stores for the segment n'
Hardened(n) == [hi |-> 2^15 + (n \div Half), lo |-> n % Half]

-----------------------------------------------------------------------------
(* Text: root key strings and derivation path strings                      *)

\* The empty string.
Empty == <<>>

\* A root key string: its version prefix and the seed it encodes.
KeyText(version, seed) == <<[sym |-> version, num |-> 0, hard |-> FALSE],
                            [sym |-> seed, num |-> 0, hard |-> FALSE]>>

\* The tokens of a derivation path string: the leading m, a numeric segment
\* (with or without the apostrophe), a segment that is no number.
M == [sym |-> "m", num |-> 0, hard |-> FALSE]
Seg(n, h) == [sym |-> "n", num |-> n, hard |-> h]
Junk == [sym |-> "x", num |-> 0, hard |-> FALSE]

defaultRecoveryWindow == 2500
defaultRescanFrom == 500000
defaultDerivationPath == <<M, Seg(84, TRUE), Seg(0, TRUE), Seg(0, TRUE)>>

\* hdkeychain.NewKeyFromString: an extended key, or an error.
NewKeyFromString(s) ==
    IF Len(s) = 2 /\ s[1].sym \in {"xprv", "xpub"}
    THEN [err |-> FALSE,
          key |-> [root |-> s[2].sym, isPrivate |-> s[1].sym = "xprv",
                   path |-> <<>>]]
    ELSE [err |-> TRUE,
          key |-> [root |-> "", isPrivate |-> FALSE, path |-> <<>>]]

\* lnd.ParsePath: the child numbers of a path string, or an error.
ParsePath(text) ==
    IF Len(text) >= 1 /\ text[1] = M
       /\ \A k \in 2..Len(text) : text[k].sym = "n"
    THEN [err |-> FALSE,
          path |-> [k \in 1..(Len(text) - 1) |->
                       IF text[k + 1].hard THEN Hardened(text[k + 1].num)
                       ELSE U32(text[k + 1].num)]]
    ELSE [err |-> TRUE, path |-> <<>>]

\* hdkeychain's ExtendedKey.Child: a hardened child needs the private key
\* (ErrDeriveHardFromPublic), and a child whose key is not a valid curve
\* point or scalar is refused (ErrInvalidChild).
Child(key, n, invalid) ==
    IF (IsHardened(n) /\ ~key.isPrivate) \/ Append(key.path, n) \in invalid
    THEN [err |-> TRUE, key |-> key]
    ELSE [err |-> FALSE,
          key |-> [root |-> key.root, isPrivate |-> key.isPrivate,
                   path |-> Append(key.path, n)]]

\* lnd.DeriveChildren: one Child step per element, stopping at an error.
RECURSIVE DeriveFrom(_, _, _, _)
DeriveFrom(key, p, k, invalid) ==
    IF k > Len(p) THEN [err |-> FALSE, key |-> key]
    ELSE LET r == Child(key, p[k], invalid)
         IN  IF r.err THEN r ELSE DeriveFrom(r.key, p, k + 1, invalid)

DeriveChildren(key, p, invalid) == DeriveFrom(key, p, 1, invalid)

-----------------------------------------------------------------------------
(* Lines of standard output                                                *)

NoKey == [enc |-> "", net |-> "", root |-> "", path |-> <<>>]

Line(cmd, key, text, b, index, time, height) ==
    [cmd |-> cmd, key |-> key, label |-> text, branch |-> b, index |-> index,
     time |-> time, height |-> height]

\* "# Wallet dump created by chantools on %s\n"
HeaderLine(t) ==
    Line("# Wallet dump created by chantools on", NoKey, Empty, -1, Zero32,
         t, Zero32)

PasteLine ==
    Line("# Paste the following lines into a command line window.", NoKey,
         Empty, -1, Zero32, -1, Zero32)

SaveLine ==
    Line("# Save this output to a file and use the importwallet command of bitcoin core.",
         NoKey, Empty, -1, Zero32, -1, Zero32)

\* "bitcoin-cli rescanblockchain %d\n"
RescanLine(height) ==
    Line("bitcoin-cli rescanblockchain", NoKey, Empty, -1, Zero32, -1, height)

\* btcutil.NewWIF(privKey, chainParams, true).String()
WIF(key, net) == [enc |-> "wif", net |-> net, root |-> key.root,
                  path |-> key.path]

\* pubKey.SerializeCompressed() in hex
PubHex(key) == [enc |-> "pub", net |-> "", root |-> key.root,
                path |-> key.path]

\* The WIF followed by the three addresses of the key on the network.
WIFAndAddrs(key, net) == [enc |-> "wif+addrs", net |-> net,
                          root |-> key.root, path |-> key.path]

\* printBitcoinCli: ECPrivKey fails on a key without private material.
printBitcoinCli(hdKey, text, b, index, net) ==
    IF ~hdKey.isPrivate THEN [err |-> TRUE, line |-> PasteLine]
    ELSE [err |-> FALSE,
          line |-> Line("bitcoin-cli importprivkey", WIF(hdKey, net), text,
                        b, index, -1, Zero32)]

\* printBitcoinCliWatchOnly: ECPubKey works on every key.
printBitcoinCliWatchOnly(hdKey, text, b, index, net) ==
    [err |-> FALSE,
     line |-> Line("bitcoin-cli importpubkey", PubHex(hdKey), text, b, index,
                   -1, Zero32)]

\* Mutant of printBitcoinImportWallet: the creation time is the time of the
\* dump instead of the fixed placeholder.
printBitcoinImportWalletNow(hdKey, text, b, index, net) ==
    IF ~hdKey.isPrivate THEN [err |-> TRUE, line |-> PasteLine]
    ELSE [err |-> FALSE,
          line |-> Line("importwallet", WIFAndAddrs(hdKey, net), text, b,
                        index, now, Zero32)]

\* printBitcoinImportWallet: the creation time is the fixed
\* 1970-01-01T00:00:01Z, one second after the epoch.
printBitcoinImportWallet(hdKey, text, b, index, net) ==
    IF ~hdKey.isPrivate THEN [err |-> TRUE, line |-> PasteLine]
    ELSE [err |-> FALSE,
          line |-> Line("importwallet", WIFAndAddrs(hdKey, net), text, b,
                        index, 1, Zero32)]

\* The call printFn(derivedKey, c.DerivationPath, branch, i).
CallPrintFn(fn, hdKey, text, b, index, net) ==
    CASE fn = "printBitcoinCli" -> printBitcoinCli(hdKey, text, b, index, net)
      [] fn = "printBitcoinCliWatchOnly" ->
            printBitcoinCliWatchOnly(hdKey, text, b, index, net)
      [] OTHER -> printBitcoinImportWallet(hdKey, text, b, index, net)

\* Mutant of DetermineFormat: an unrecognized selector falls to the last case
\* instead of the first.
DetermineFormatLastCase(format) ==
    CASE format = "bitcoin-cli" ->
            [fn |-> "printBitcoinCli", line |-> PasteLine]
      [] format = "bitcoin-cli-watchonly" ->
            [fn |-> "printBitcoinCliWatchOnly", line |-> PasteLine]
      [] OTHER -> [fn |-> "printBitcoinImportWallet", line |-> SaveLine]

\* The switch on c.Format: the print function and the instruction line.
DetermineFormat(format) ==
    CASE format = "bitcoin-cli-watchonly" ->
            [fn |-> "printBitcoinCliWatchOnly", line |-> PasteLine]
      [] format = "bitcoin-importwallet" ->
            [fn |-> "printBitcoinImportWallet", line |-> SaveLine]
      [] OTHER -> [fn |-> "printBitcoinCli", line |-> PasteLine]

\* path := append(derivationPath, branch, i)
AppendPath(prefix, b, index) == Append(Append(prefix, U32(b)), index)

\* One pass through the body of either loop: derive, then print.
LoopBody(key, prefix, fn, text, b, index, net, invalid) ==
    LET p == AppendPath(prefix, b, index)
        d == DeriveChildren(key, p, invalid)
        r == CallPrintFn(fn, d.key, text, b, index, net)
    IN  IF d.err THEN [path |-> p, err |-> TRUE, line |-> PasteLine]
        ELSE [path |-> p, err |-> r.err, line |-> r.line]

-----------------------------------------------------------------------------
(* seedBirthdayToBlock                                                     *)

\* chaincfg.MainNetParams.GenesisBlock.Header.Timestamp, in Unix seconds
MainNetGenesis == 1231006505

\* chaincfg.TestNet3Params.GenesisBlock.Header.Timestamp, in Unix seconds
TestNet3Genesis == 1296688602

\* The average block time, in seconds.
BlockSeconds == 600

\* 48 * time.Hour, in seconds.
BirthdaySlack == 172800

\* x / y with the fraction discarded, as a float to integer conversion does.
Trunc(x, y) == IF x >= 0 THEN x \div y ELSE -((-x) \div y)

\* uint32(f) for a float f whose integer part is q.  A q below zero is not a
\* uint32 and Go leaves the result to the implementation: the low 32 bits of
\* the integer ("wrap", amd64) or zero ("saturate", arm64).
Builds == {"wrap", "saturate"}

FloatToUint32(q, b) ==
    IF q >= 0 THEN U32(q)
    ELSE IF b = "wrap" THEN Neg32(-q)
    ELSE Zero32

seedBirthdayToBlock(birthdayTimestamp, net, b) ==
    CASE net = "mainnet" ->
            [panic |-> FALSE,
             height |-> FloatToUint32(
                 Trunc(birthdayTimestamp - MainNetGenesis, BlockSeconds), b)]
      [] net = "testnet3" ->
            [panic |-> FALSE,
             height |-> FloatToUint32(
                 Trunc(birthdayTimestamp - TestNet3Genesis, BlockSeconds), b)]
      [] net \in {"regtest", "simnet"} -> [panic |-> FALSE, height |-> Zero32]
      [] OTHER -> [panic |-> TRUE, height |-> Zero32]

\* Whether the conversion in seedBirthdayToBlock is left to the build.
OutOfRange(birthdayTimestamp, net) ==
    \/ net = "mainnet"
       /\ Trunc(birthdayTimestamp - MainNetGenesis, BlockSeconds) < 0
    \/ net = "testnet3"
       /\ Trunc(birthdayTimestamp - TestNet3Genesis, BlockSeconds) < 0

-----------------------------------------------------------------------------
(* The inputs of a run                                                     *)

RootKeys == {Empty, KeyText("xprv", "seedA"), KeyText("xpub", "seedA"),
             KeyText("zzzz", "seedA")}

Formats == {"", "bitcoin-cli", "bitcoin-cli-watchonly",
            "bitcoin-importwallet", "electrum"}

RecognizedFormats == {"bitcoin-cli", "bitcoin-cli-watchonly",
                      "bitcoin-importwallet"}

\* "", "m/0" and "m/x"
Paths == {Empty, <<M, Seg(0, FALSE)>>, <<M, Junk>>}

\* A window of 0 (resolved to 2500 keys per branch) is left to SpecLoop.
Windows == {U32(w) : w \in 1..MaxWindow}

RescanFroms == {Zero32, U32(7)}

Networks == {"mainnet", "testnet3", "regtest", "simnet", "signet"}

\* Birthdays of a seed: one and two days after the mainnet genesis block,
\* 100 minutes later, and two days and 20 minutes after testnet3's.
Birthdays == {MainNetGenesis + 86400, MainNetGenesis + BirthdaySlack,
              MainNetGenesis + BirthdaySlack + 6000,
              TestNet3Genesis + BirthdaySlack + 1200}

NotAsked == [asked |-> FALSE, err |-> FALSE, seed |-> "", birthday |-> 0]

\* rootKeyFromConsole: an error, or a private root key and its birthday.
ConsoleAnswers ==
    {[asked |-> TRUE, err |-> TRUE, seed |-> "", birthday |-> 0]}
    \cup {[asked |-> TRUE, err |-> FALSE, seed |-> "seedB", birthday |-> b] :
             b \in Birthdays}

\* The environments of a run: no invalid child, or one in the second or
\* the third pair of a path.
InvalidChildSets ==
    {{}, {AppendPath(ParsePath(defaultDerivationPath).path, 0, U32(1))},
     {AppendPath(ParsePath(<<M, Seg(0, FALSE)>>).path, 1, Zero32)}}

NoExtKey == [root |-> "", isPrivate |-> FALSE, path |-> <<>>]

NoPrev == [pc |-> "none", out |-> <<>>,
           args |-> [RootKey |-> Empty, Format |-> "",
                     DerivationPath |-> Empty, RecoveryWindow |-> Zero32,
                     RescanFrom |-> Zero32]]

IterIdle == [state |-> "idle", window |-> Zero32, key |-> NoExtKey,
             text |-> Empty, format |-> "", branch |-> 0, index |-> Zero32,
             path |-> <<>>, err |-> FALSE]

EstIdle == [state |-> "idle", net |-> "", build |-> "", tA |-> 0, tB |-> 0,
            a |-> Zero32, b |-> Zero32]

Ended == {"done", "failed", "panicked"}

-----------------------------------------------------------------------------
(* Execute                                                                 *)

\* The state in which Execute is entered with the flags a.
Enter(a) ==
    /\ args = a
    /\ c = a
    /\ extendedKey = NoExtKey
    /\ derivationPath = <<>>
    /\ printFn = ""
    /\ branch = 0
    /\ i = Zero32
    /\ path = <<>>
    /\ out = <<>>
    /\ pc = "start"

\* The flags of a run.
Flags == [RootKey : RootKeys, Format : Formats, DerivationPath : Paths,
          RecoveryWindow : Windows, RescanFrom : RescanFroms]

\* What is not yet known or not yet run when the command is first started.
FirstRun ==
    /\ console = NotAsked
    /\ build = "any"
    /\ now = 0
    /\ runs = 1
    /\ prev = NoPrev
    /\ iter = IterIdle
    /\ est = EstIdle

Init ==
    /\ \E a \in Flags : Enter(a)
    /\ chainParams \in Networks
    /\ invalidChildren \in InvalidChildSets
    /\ FirstRun

\* The runs that are started again: those in which every child is valid.
InitRerun ==
    /\ \E a \in Flags : Enter(a)
    /\ chainParams \in Networks
    /\ invalidChildren = {}
    /\ FirstRun

\* case c.RootKey != "": the key is read from the flag.
ReadRootKeyString ==
    /\ pc = "start"
    /\ c.RootKey # Empty
    /\ LET r == NewKeyFromString(c.RootKey)
       IN  IF r.err
           THEN /\ pc' = "failed"
                /\ UNCHANGED extendedKey
           ELSE /\ pc' = "defaults"
                /\ extendedKey' = r.key
    /\ UNCHANGED <<args, chainParams, console, build, invalidChildren, c,
                   derivationPath, printFn, branch, i, path, now, out, runs,
                   prev, iter, est>>

\* The rescan height the console branch stores in c.RescanFrom.
BirthdayRescanFrom(birthday, net, b) ==
    seedBirthdayToBlock(birthday - BirthdaySlack, net, b)

\* default: the key and its birthday are read from the console, and
\* c.RescanFrom is set from the birthday.
ReadRootKeyConsole ==
    /\ pc = "start"
    /\ c.RootKey = Empty
    /\ \E answer \in (IF console.asked THEN {console} ELSE ConsoleAnswers) :
         /\ console' = answer
         /\ IF answer.err
            THEN /\ pc' = "failed"
                 /\ UNCHANGED <<extendedKey, c, build>>
            ELSE \E b \in (IF build # "any" THEN {build}
                           ELSE IF OutOfRange(answer.birthday - BirthdaySlack,
                                              chainParams)
                                THEN Builds ELSE {"any"}) :
                   LET r == BirthdayRescanFrom(answer.birthday, chainParams, b)
                   IN  /\ build' = b
                       /\ extendedKey' = [root |-> answer.seed,
                                          isPrivate |-> TRUE, path |-> <<>>]
                       /\ IF r.panic
                          THEN /\ pc' = "panicked"
                               /\ UNCHANGED c
                          ELSE /\ pc' = "defaults"
                               /\ c' = [c EXCEPT !.RescanFrom = r.height]
    /\ UNCHANGED <<args, chainParams, invalidChildren, derivationPath,
                   printFn, branch, i, path, now, out, runs, prev, iter, est>>

\* Mutant of Defaults: a rescan height of zero is left as it is.
DefaultsWithoutRescanFrom(cmd) ==
    [cmd EXCEPT
       !.RecoveryWindow = IF @ = Zero32 THEN U32(defaultRecoveryWindow) ELSE @,
       !.DerivationPath = IF @ = Empty THEN defaultDerivationPath ELSE @]

\* The three defaults, each set when the field is zero or empty.
Defaults(cmd) ==
    [cmd EXCEPT
       !.RecoveryWindow = IF @ = Zero32 THEN U32(defaultRecoveryWindow) ELSE @,
       !.RescanFrom = IF @ = Zero32 THEN U32(defaultRescanFrom) ELSE @,
       !.DerivationPath = IF @ = Empty THEN defaultDerivationPath ELSE @]

SetDefaults ==
    /\ pc = "defaults"
    /\ c' = Defaults(c)
    /\ pc' = "parse"
    /\ UNCHANGED <<args, chainParams, console, build, invalidChildren,
                   extendedKey, derivationPath, printFn, branch, i, path, now,
                   out, runs, prev, iter, est>>

ParseDerivationPath ==
    /\ pc = "parse"
    /\ LET r == ParsePath(c.DerivationPath)
       IN  IF r.err
           THEN /\ pc' = "failed"
                /\ UNCHANGED derivationPath
           ELSE /\ pc' = "header"
                /\ derivationPath' = r.path
    /\ UNCHANGED <<args, chainParams, console, build, invalidChildren, c,
                   extendedKey, printFn, branch, i, path, now, out, runs,
                   prev, iter, est>>

\* The header comment carries time.Now(), a reading no earlier than the last.
PrintHeader ==
    /\ pc = "header"
    /\ \E t \in now..MaxClock :
         /\ now' = t
         /\ out' = Append(out, HeaderLine(t))
    /\ pc' = "format"
    /\ UNCHANGED <<args, chainParams, console, build, invalidChildren, c,
                   extendedKey, derivationPath, printFn, branch, i, path,
                   runs, prev, iter, est>>

SelectFormat ==
    /\ pc = "format"
    /\ LET r == DetermineFormat(c.Format)
       IN  /\ printFn' = r.fn
           /\ out' = Append(out, r.line)
    /\ branch' = 0
    /\ i' = Zero32
    /\ pc' = "loop"
    /\ UNCHANGED <<args, chainParams, console, build, invalidChildren, c,
                   extendedKey, derivationPath, path, now, runs, prev, iter,
                   est>>

\* Mutant of Iterate: the line is written before the error is looked at.
IteratePrintThenCheck ==
    /\ pc = "loop"
    /\ Less(i, c.RecoveryWindow)
    /\ LET r == LoopBody(extendedKey, derivationPath, printFn,
                         c.DerivationPath, branch, i, chainParams,
                         invalidChildren)
       IN  /\ path' = r.path
           /\ out' = Append(out, r.line)
           /\ IF r.err
              THEN /\ pc' = "failed"
                   /\ UNCHANGED i
              ELSE /\ i' = Inc(i)
                   /\ UNCHANGED pc
    /\ UNCHANGED <<args, chainParams, console, build, invalidChildren, c,
                   extendedKey, derivationPath, printFn, branch, now, runs,
                   prev, iter, est>>

\* One pass through the loop of the current branch.
Iterate ==
    /\ pc = "loop"
    /\ Less(i, c.RecoveryWindow)
    /\ LET r == LoopBody(extendedKey, derivationPath, printFn,
                         c.DerivationPath, branch, i, chainParams,
                         invalidChildren)
       IN  /\ path' = r.path
           /\ IF r.err
              THEN /\ pc' = "failed"
                   /\ UNCHANGED <<out, i>>
              ELSE /\ out' = Append(out, r.line)
                   /\ i' = Inc(i)
                   /\ UNCHANGED pc
    /\ UNCHANGED <<args, chainParams, console, build, invalidChildren, c,
                   extendedKey, derivationPath, printFn, branch, now, runs,
                   prev, iter, est>>

\* The external branch is exhausted: the internal branch starts at 0.
NextBranch ==
    /\ pc = "loop"
    /\ branch = 0
    /\ ~Less(i, c.RecoveryWindow)
    /\ branch' = 1
    /\ i' = Zero32
    /\ UNCHANGED <<args, chainParams, console, build, invalidChildren, c,
                   extendedKey, derivationPath, printFn, path, now, out, pc,
                   runs, prev, iter, est>>

PrintRescan ==
    /\ pc = "loop"
    /\ branch = 1
    /\ ~Less(i, c.RecoveryWindow)
    /\ out' = Append(out, RescanLine(c.RescanFrom))
    /\ pc' = "done"
    /\ UNCHANGED <<args, chainParams, console, build, invalidChildren, c,
                   extendedKey, derivationPath, printFn, branch, i, path, now,
                   runs, prev, iter, est>>

Next ==
    \/ ReadRootKeyString
    \/ ReadRootKeyConsole
    \/ SetDefaults
    \/ ParseDerivationPath
    \/ PrintHeader
    \/ SelectFormat
    \/ Iterate
    \/ NextBranch
    \/ PrintRescan

Spec == Init /\ [][Next]_vars

\* The command is started again with the same flags, or with another format
\* and the same remaining flags, on the same network and with the same seed.
Rerun ==
    /\ pc \in Ended
    /\ runs < MaxRuns
    /\ \E f \in Formats :
         /\ args' = [args EXCEPT !.Format = f]
         /\ c' = [args EXCEPT !.Format = f]
    /\ prev' = [pc |-> pc, out |-> out, args |-> args]
    /\ runs' = runs + 1
    /\ extendedKey' = NoExtKey
    /\ derivationPath' = <<>>
    /\ printFn' = ""
    /\ branch' = 0
    /\ i' = Zero32
    /\ path' = <<>>
    /\ out' = <<>>
    /\ pc' = "start"
    /\ UNCHANGED <<chainParams, console, build, invalidChildren, now, iter,
                   est>>

NextRerun ==
    \/ Next
    \/ Rerun

SpecRerun == InitRerun /\ [][NextRerun]_vars

-----------------------------------------------------------------------------
(* The loop body at one enumerated pair                                    *)

\* Windows as the flag gives them, up to the largest uint32.
LoopWindows ==
    {Zero32, U32(1), U32(2), U32(defaultRecoveryWindow),
     [hi |-> 2^15 - 1, lo |-> Half - 1], HardenedKeyStart,
     Inc(HardenedKeyStart), [hi |-> Half - 1, lo |-> Half - 1]}

\* Values of the loop counter.
LoopIndexes ==
    {Zero32, U32(1), U32(defaultRecoveryWindow - 1),
     [hi |-> 2^15 - 1, lo |-> Half - 1], HardenedKeyStart,
     [hi |-> Half - 1, lo |-> Half - 2]}

\* Execute is in the loop of branch b at i with the window w: i < w.
InitLoop ==
    /\ \E a \in [RootKey : {KeyText("xprv", "seedA"), KeyText("xpub", "seedA")},
                 Format : Formats, DerivationPath : {Empty, <<M, Seg(0, FALSE)>>},
                 RecoveryWindow : LoopWindows, RescanFrom : {Zero32}],
          b \in {0, 1}, index \in LoopIndexes :
         /\ Less(index, Defaults(a).RecoveryWindow)
         /\ iter = [state |-> "pending",
                    window |-> Defaults(a).RecoveryWindow,
                    key |-> NewKeyFromString(a.RootKey).key,
                    text |-> Defaults(a).DerivationPath,
                    format |-> a.Format, branch |-> b, index |-> index,
                    path |-> <<>>, err |-> FALSE]
    /\ Enter(NoPrev.args)
    /\ chainParams = "mainnet"
    /\ invalidChildren = {}
    /\ console = NotAsked
    /\ build = "any"
    /\ now = 0
    /\ runs = 1
    /\ prev = NoPrev
    /\ est = EstIdle

ApplyLoopBody ==
    /\ iter.state = "pending"
    /\ LET r == LoopBody(iter.key, ParsePath(iter.text).path,
                         DetermineFormat(iter.format).fn, iter.text,
                         iter.branch, iter.index, chainParams,
                         invalidChildren)
       IN  iter' = [iter EXCEPT !.state = "applied", !.path = r.path,
                                !.err = r.err]
    /\ UNCHANGED <<runVars, est>>

NextLoop == ApplyLoopBody

SpecLoop == InitLoop /\ [][NextLoop]_vars

-----------------------------------------------------------------------------
(* seedBirthdayToBlock at two timestamps                                   *)

\* Seconds before and after the genesis block.
Offsets == {-BirthdaySlack, -2 * BlockSeconds, -BlockSeconds - 1,
            -BlockSeconds, -1, 0, BlockSeconds - 1, BlockSeconds,
            2 * BlockSeconds, BirthdaySlack}

Timestamps == {MainNetGenesis + d : d \in Offsets}
              \cup {TestNet3Genesis + d : d \in Offsets}

InitEstimate ==
    /\ \E n \in Networks, b \in Builds, tA \in Timestamps, tB \in Timestamps :
         est = [state |-> "pending", net |-> n, build |-> b, tA |-> tA,
                tB |-> tB, a |-> Zero32, b |-> Zero32]
    /\ Enter(NoPrev.args)
    /\ chainParams = "mainnet"
    /\ invalidChildren = {}
    /\ console = NotAsked
    /\ build = "any"
    /\ now = 0
    /\ runs = 1
    /\ prev = NoPrev
    /\ iter = IterIdle

\* Both estimates are computed; an unknown network panics instead.
Estimate ==
    /\ est.state = "pending"
    /\ LET ra == seedBirthdayToBlock(est.tA, est.net, est.build)
           rb == seedBirthdayToBlock(est.tB, est.net, est.build)
       IN  IF ra.panic \/ rb.panic
           THEN est' = [est EXCEPT !.state = "panicked"]
           ELSE est' = [est EXCEPT !.state = "returned", !.a = ra.height,
                                   !.b = rb.height]
    /\ UNCHANGED <<runVars, iter>>

NextEstimate == Estimate

SpecEstimate == InitEstimate /\ [][NextEstimate]_vars

-----------------------------------------------------------------------------
(* Properties                                                              *)

\* A small uint32 as a number.
Nat32(u) == u.hi * Half + u.lo

KeyCommands == {"bitcoin-cli importprivkey", "bitcoin-cli importpubkey",
                "importwallet"}

IsKeyLine(l) == l.cmd \in KeyCommands

IsRescanLine(l) == l.cmd = "bitcoin-cli rescanblockchain"

\* The n-th pair (n from 0) in branch-then-ascending-index order for window w.
PairBranch(n, w) == n \div w
PairIndex(n, w) == U32(n % w)

\* Line l is the key line of the n-th pair: labelled <prefix>/<branch>/<index>/
\* and holding the key derived at the parsed prefix, the branch and the index.
IsKeyLineOfPair(l, n, w) ==
    /\ IsKeyLine(l)
    /\ l.label = c.DerivationPath
    /\ l.branch = PairBranch(n, w)
    /\ l.index = PairIndex(n, w)
    /\ l.key.path = derivationPath \o <<U32(PairBranch(n, w)), PairIndex(n, w)>>

\* C1: a run that ends without an error has written, after the two comment
\* lines, exactly 2*W key lines, those of branch 0 with index 0..W-1 in
\* ascending order and then those of branch 1 with index 0..W-1, each labelled
\* <pathPrefix>/<branch>/<index>/, and after them exactly one rescan directive,
\* which is the last line.
C1_Enumeration ==
    pc = "done" =>
        LET w == Nat32(c.RecoveryWindow)
        IN  /\ w >= 1
            /\ Len(out) = 2 * w + 3
            /\ ~IsKeyLine(out[1]) /\ ~IsKeyLine(out[2])
            /\ \A n \in 0..(2 * w - 1) : IsKeyLineOfPair(out[n + 3], n, w)
            /\ IsRescanLine(out[Len(out)])
            /\ \A n \in 1..(Len(out) - 1) : ~IsRescanLine(out[n])

C1_Witness ==
    /\ pc = "done"
    /\ c.RecoveryWindow = U32(2)
    /\ Len(out) = 7
    /\ out[4].index = U32(1)
    /\ out[5].branch = 1

\* The estimate the console branch computes for this run's seed.
BirthdayEstimate ==
    seedBirthdayToBlock(console.birthday - BirthdaySlack, chainParams,
                        build).height

\* C2 as stated: the height of the rescan directive is the supplied RescanFrom
\* when that is not zero; otherwise the birthday estimate when the key came
\* from the console (and the estimate is not zero); otherwise 500000.
C2_Original ==
    pc = "done" =>
        out[Len(out)].height =
            IF args.RescanFrom # Zero32 THEN args.RescanFrom
            ELSE IF args.RootKey = Empty /\ BirthdayEstimate # Zero32
                 THEN BirthdayEstimate
            ELSE U32(defaultRescanFrom)

\* C2 amended: when the key came from the console the height is the birthday
\* estimate, whatever RescanFrom was supplied, or 500000 when the estimate is
\* zero; when the key came from the flag it is the supplied RescanFrom, or
\* 500000 when that is zero.
C2_RescanHeight ==
    pc = "done" =>
        out[Len(out)].height =
            IF args.RootKey = Empty
            THEN IF BirthdayEstimate = Zero32 THEN U32(defaultRescanFrom)
                 ELSE BirthdayEstimate
            ELSE IF args.RescanFrom # Zero32 THEN args.RescanFrom
                 ELSE U32(defaultRescanFrom)

\* A console run with a supplied RescanFrom of 7 that prints another height.
C2_Witness ==
    /\ pc = "done"
    /\ args.RootKey = Empty
    /\ args.RescanFrom = U32(7)
    /\ BirthdayEstimate = U32(10)
    /\ out[Len(out)].height = U32(10)

\* C3: when the loop body fails at the pair (branch, i), the run has failed
\* with exactly the key lines of the pairs before (branch, i), in order, the
\* path last derived is that of (branch, i), and no rescan directive is written.
C3_FailFast ==
    (pc = "failed" /\ Len(out) >= 2) =>
        LET w == Nat32(c.RecoveryWindow)
            n == branch * w + Nat32(i)
        IN  /\ Less(i, c.RecoveryWindow)
            /\ Len(out) = n + 2
            /\ \A k \in 0..(n - 1) : IsKeyLineOfPair(out[k + 3], k, w)
            /\ path = AppendPath(derivationPath, branch, i)
            /\ \A k \in 1..Len(out) : ~IsRescanLine(out[k])

\* A run that failed at the third pair, (1, 0), after two key lines.
C3_Witness ==
    /\ pc = "failed"
    /\ branch = 1
    /\ i = Zero32
    /\ c.RecoveryWindow = U32(2)
    /\ Len(out) = 4
    /\ IsKeyLine(out[4])

\* Both runs are over and the second was started with the flags of the first.
SameFlagsTwice ==
    /\ pc \in Ended
    /\ prev.pc \in Ended
    /\ args = prev.args

\* C4 as stated: two runs with the same flags write the same lines, the header
\* comment included.
C4_Original == SameFlagsTwice => out = prev.out

\* C4 amended: two runs with the same flags end the same way and write the
\* same lines except for the time in the header comment, the first line.
C4_Reproducible ==
    SameFlagsTwice =>
        /\ pc = prev.pc
        /\ Len(out) = Len(prev.out)
        /\ \A n \in 1..Len(out) :
             IF n = 1 THEN out[n] = [prev.out[n] EXCEPT !.time = out[n].time]
             ELSE out[n] = prev.out[n]

\* Two complete bulk-dump runs whose headers carry different times.
C4_Witness ==
    /\ SameFlagsTwice
    /\ pc = "done"
    /\ args.Format = "bitcoin-importwallet"
    /\ out[1].time # prev.out[1].time
    /\ Len(out) = 7

\* One run used an unrecognized selector and the other "bitcoin-cli".
UnrecognizedAndCli ==
    /\ pc \in Ended
    /\ prev.pc \in Ended
    /\ \/ args.Format \notin RecognizedFormats /\ prev.args.Format = "bitcoin-cli"
       \/ prev.args.Format \notin RecognizedFormats /\ args.Format = "bitcoin-cli"

\* C5: a run with an unrecognized selector ends as the run with "bitcoin-cli"
\* and the same remaining flags does, and writes the same instruction line,
\* key lines and rescan directive.
C5_DefaultFormat ==
    UnrecognizedAndCli =>
        /\ pc = prev.pc
        /\ Len(out) = Len(prev.out)
        /\ \A n \in 2..Len(out) : out[n] = prev.out[n]

C5_Witness ==
    /\ UnrecognizedAndCli
    /\ args.Format = "electrum"
    /\ pc = "done"
    /\ Len(out) = 7
    /\ out[3].cmd = "bitcoin-cli importprivkey"

\* C6 as stated: on mainnet and testnet3 the estimate is monotone in the
\* timestamp, timestamps before the genesis block included.
C6_Monotone ==
    (est.state = "returned" /\ est.net \in {"mainnet", "testnet3"}
     /\ est.tA <= est.tB) => Leq(est.a, est.b)

\* C7 as stated: on an unknown network a run that asks for the birthday
\* estimate writes nothing and ends with an error returned by Execute.
C7_UnknownNetworkError ==
    (pc \in Ended /\ args.RootKey = Empty /\ console.asked /\ ~console.err
     /\ chainParams \notin {"mainnet", "testnet3", "regtest", "simnet"})
        => (pc = "failed" /\ out = <<>>)

\* The root key string or the derivation path text of the run does not parse.
Unparsable ==
    \/ args.RootKey # Empty /\ NewKeyFromString(args.RootKey).err
    \/ ParsePath(Defaults(args).DerivationPath).err

\* C8 as stated: when the root key string or the path text cannot be parsed,
\* Execute returns an error and nothing is written.
C8_MalformedInput ==
    (pc \in Ended /\ Unparsable) => (pc = "failed" /\ out = <<>>)

\* C8 apart from the panic of C7: an unparsable root key string or path text
\* never lets a line be written or the run end without a failure.
C8_NothingWritten ==
    Unparsable => (out = <<>> /\ pc # "done")

\* C9 as stated: the path derived at an enumerated pair is the parsed prefix
\* followed by the branch and the index, and neither of the two is a hardened
\* child number.
C9_NonHardened ==
    iter.state = "applied" =>
        LET prefix == ParsePath(iter.text).path
            n == Len(iter.path)
        IN  /\ n = Len(prefix) + 2
            /\ SubSeq(iter.path, 1, n - 2) = prefix
            /\ iter.path[n - 1] = U32(iter.branch)
            /\ iter.path[n] = iter.index
            /\ ~IsHardened(iter.path[n - 1])
            /\ ~IsHardened(iter.path[n])

\* C10 as stated, for the watch-only format: with a public root key and a
\* prefix without a hardened step the loop body succeeds at every enumerated
\* pair, so that all 2*W key lines are written.
C10_WatchOnlySucceeds ==
    (iter.state = "applied" /\ ~iter.key.isPrivate
     /\ iter.text = <<M, Seg(0, FALSE)>>
     /\ iter.format = "bitcoin-cli-watchonly") => ~iter.err

\* C10 for the windows of Spec, where no index is hardened and no child is
\* invalid: with a public root key and the prefix m/0 the watch-only run ends
\* with all its lines, and the other formats fail at (0, 0) after the two
\* comment lines.
C10_SmallWindow ==
    (pc \in Ended /\ ~extendedKey.isPrivate /\ args.RootKey # Empty
     /\ ~NewKeyFromString(args.RootKey).err
     /\ args.DerivationPath = <<M, Seg(0, FALSE)>> /\ invalidChildren = {})
        => IF args.Format = "bitcoin-cli-watchonly"
           THEN /\ pc = "done"
                /\ Len(out) = 2 * Nat32(c.RecoveryWindow) + 3
           ELSE /\ pc = "failed"
                /\ Len(out) = 2
                /\ branch = 0 /\ i = Zero32

=============================================================================
